---- MODULE Spec2Model ----
(***************************************************************************)
(* Model of the document-intake service:                                   *)
(*   app/api/v1/documents/routes.py  upload_documents, list_documents,     *)
(*                                   get_document, download_document       *)
(*   app/db/database.py              get_db (request-scoped session)       *)
(*   app/db/models.py                Document                              *)
(*                                                                         *)
(* Every upload request is a coroutine; it is modelled as a process that   *)
(* steps from one suspension point (await) or file-system call to the      *)
(* next, so that requests interleave.  The database is PostgreSQL behind   *)
(* an AsyncSession: rows inserted by flush() sit in the table heap and are *)
(* visible to other sessions only once their transaction has committed; a  *)
(* session closed without commit rolls its transaction back, and the space *)
(* of its rows is free for later inserts.                                  *)
(***************************************************************************)
EXTENDS Integers, Sequences, FiniteSets, TLC

\* ---------------------------------------------------------------- bounds
NumRequests == 2      \* upload requests that may be in flight together
MaxFiles    == 2      \* files per multipart batch
MaxClock    == 1      \* readings the wall clock can take: 0..MaxClock

\* ------------------------------------------------------ program constants
MAX_FILE_SIZE_MB == 20
MiB == 1024 * 1024
ALLOWED_CONTENT_TYPES == {"application/pdf"}

Requests == 1..NumRequests
Clock    == 0..MaxClock

\* ---------------------------------------------------------------- inputs
Ceiling      == MAX_FILE_SIZE_MB * MiB
Filenames    == {"a.pdf", "b.pdf"}
ContentTypes == {"application/pdf", "text/plain"}
Sizes        == {Ceiling, Ceiling + 1}

\* The bytes of a file: their length, and a body that tells the bytes of
\* file k of request r from those of every other uploaded file.
Bytes(n, r, k) == [len |-> n, body |-> <<r, k>>]

\* Every combination of type and size under the first name, and one more
\* acceptable file under each other name.
FileShapes ==
    { s \in [filename : Filenames, content_type : ContentTypes, size : Sizes] :
        s.filename # "a.pdf" =>
            s.content_type = "application/pdf" /\ s.size = Ceiling }

UploadFiles(r, k) ==
    { [filename |-> s.filename, content_type |-> s.content_type,
       content |-> Bytes(s.size, r, k)] : s \in FileShapes }

RECURSIVE Batches(_, _)
Batches(r, n) ==
    IF n = 0 THEN { <<>> }
    ELSE { Append(b, u) : b \in Batches(r, n - 1), u \in UploadFiles(r, n) }

FileLists(r) == UNION { Batches(r, n) : n \in 0..MaxFiles }

None == [none |-> TRUE]

Range(s) == { s[k] : k \in DOMAIN s }

\* What a read request answers: the operation, the id asked for, the HTTP
\* status and the body.  NoReply: the step just taken served no read.
Reply(op, id, res) == [op |-> op, id |-> id, status |-> res.status, body |-> res.body]
NoReply == [op |-> "none", id |-> 0, status |-> 0, body |-> <<>>]

VARIABLES
    clock,        \* datetime.utcnow(): the current reading of the wall clock
    storage_dir,  \* TRUE once STORAGE_DIR exists
    disk,         \* the files under STORAGE_DIR: path -> bytes
    heap,         \* table "documents": every row ever inserted, in insert order,
                  \* each with the slot it occupies (or occupied, once rolled back)
    xact,         \* per request: state of its session's transaction
    seq_id,       \* the sequence behind Document.id: last value handed out
    pc,           \* per request: where its coroutine stands
    files,        \* per request: the submitted file list
    pos,          \* per request: index of the loop's current file
    contents,     \* per request: bytes read from the current file
    file_path,    \* per request: path the current file was saved under
    saved_ids,    \* per request: ids collected so far
    response,     \* per request: the HTTP response, once sent
    started,      \* per request: clock reading when the handler was entered
    ended,        \* per request: clock reading when the response was sent
    events,       \* per request: what the handler has done so far, in order
    reply         \* response sent by the step just taken, if it served a read

dbvars  == <<heap, xact, seq_id>>
reqvars == <<pc, files, pos, contents, file_path, saved_ids, response,
             started, ended, events>>
vars    == <<clock, storage_dir, disk, heap, xact, seq_id, pc, files, pos,
             contents, file_path, saved_ids, response, started, ended,
             events, reply>>

\* ------------------------------------------------------------- Document
\* uploaded_at defaults to a value fixed when the module was loaded.
DocumentStale(id, name, path, at, r, slot) ==
    [id |-> id, original_filename |-> name, stored_path |-> path,
     uploaded_at |-> 0, xid |-> r, slot |-> slot]

\* A row of table "documents".  xid names the transaction that inserted it,
\* slot the place in the table's file where the row was put.
Document(id, name, path, at, r, slot) ==
    [id |-> id, original_filename |-> name, stored_path |-> path,
     uploaded_at |-> at, xid |-> r, slot |-> slot]

\* DocumentOut.model_validate: the four public fields of a row.
DocumentOut(d) ==
    [id |-> d.id, original_filename |-> d.original_filename,
     stored_path |-> d.stored_path, uploaded_at |-> d.uploaded_at]

\* UploadResult(uploaded_ids=..., count=...)
UploadResult(ids, n) == [uploaded_ids |-> ids, count |-> n]

\* raise HTTPException(status_code=..., detail=...)
HTTPException(code, detail) == [status |-> code, detail |-> detail]

\* STORAGE_DIR / f"{timestamp}_{filename}": the timestamp's decimal form holds
\* no underscore, so the path is the pair (timestamp, filename) and nothing less.
StoragePath(ts, name) == [ts |-> ts, name |-> name]

\* The file is never written.
WriteFileNot(d, path, bytes) == d

\* file_path.open("wb") ... buffer.write(contents): creates or truncates.
WriteFile(d, path, bytes) ==
    [p \in DOMAIN d \cup {path} |-> IF p = path THEN bytes ELSE d[p]]

\* file_path.is_file()
IsFile(path) == path \in DOMAIN disk

\* One entry of a request's history.
Event(op, k, id) == [op |-> op, k |-> k, id |-> id]

\* Rows of transactions still in progress are seen as well.
IsCommittedDirty(d) == xact[d.xid] \in {"active", "committed"}

\* Rows a session other than the inserting one can see (READ COMMITTED).
IsCommitted(d) == xact[d.xid] = "committed"
CommittedRows == { d \in Range(heap) : IsCommitted(d) }

\* select(Document), with no ORDER BY: the rows come as the scan of the table
\* meets them, by slot.
Committed ==
    [k \in 1..Cardinality(CommittedRows) |->
        CHOOSE d \in CommittedRows :
            Cardinality({ e \in CommittedRows : e.slot < d.slot }) = k - 1]

\* Where an INSERT may put its row: at the end of the table, or in the slot
\* of a rolled-back row, whose space the database reclaims and hands out
\* again.
UsedSlots == { d.slot : d \in Range(heap) }
LiveSlots == { d.slot : d \in { e \in Range(heap) : xact[e.xid] # "aborted" } }
FreeSlots == (UsedSlots \ LiveSlots) \cup { Cardinality(UsedSlots) + 1 }

\* select(Document).where(Document.id == id) ... scalar_one_or_none()
Lookup(id) ==
    IF \E d \in CommittedRows : d.id = id
    THEN CHOOSE d \in CommittedRows : d.id = id
    ELSE None

\* ----------------------------------------------------------------- Init
Init ==
    /\ clock = 0
    /\ storage_dir = FALSE
    /\ disk = <<>>
    /\ heap = <<>>
    /\ xact = [r \in Requests |-> "none"]
    /\ seq_id = 0
    /\ pc = [r \in Requests |-> "idle"]
    /\ files = [r \in Requests |-> <<>>]
    /\ pos = [r \in Requests |-> 0]
    /\ contents = [r \in Requests |-> None]
    /\ file_path = [r \in Requests |-> None]
    /\ saved_ids = [r \in Requests |-> <<>>]
    /\ response = [r \in Requests |-> None]
    /\ started = [r \in Requests |-> 0]
    /\ ended = [r \in Requests |-> 0]
    /\ events = [r \in Requests |-> <<>>]
    /\ reply = NoReply

\* The wall clock moves on between any two steps, or does not.
Tick ==
    /\ clock < MaxClock
    /\ clock' = clock + 1
    /\ reply' = NoReply
    /\ UNCHANGED <<storage_dir, disk, dbvars, reqvars>>

\* The session commits on close instead of rolling back.
AbortCommits(r, exc, ev) ==
    /\ response' = [response EXCEPT ![r] = exc]
    /\ xact' = [xact EXCEPT ![r] = IF @ = "active" THEN "committed" ELSE @]
    /\ pc' = [pc EXCEPT ![r] = "done"]
    /\ ended' = [ended EXCEPT ![r] = clock]
    /\ events' = [events EXCEPT ![r] = @ \o ev]

\* An HTTPException leaves the handler: the response is sent and get_db's
\* "async with" closes the session, rolling back what was not committed.
Abort(r, exc, ev) ==
    /\ response' = [response EXCEPT ![r] = exc]
    /\ xact' = [xact EXCEPT ![r] = IF @ = "active" THEN "aborted" ELSE @]
    /\ pc' = [pc EXCEPT ![r] = "done"]
    /\ ended' = [ended EXCEPT ![r] = clock]
    /\ events' = [events EXCEPT ![r] = @ \o ev]

\* The storage directory is made before the file list is looked at.
UploadBeginMkdirFirst(r) ==
    /\ pc[r] = "idle"
    /\ \E fs \in FileLists(r) :
        /\ files' = [files EXCEPT ![r] = fs]
        /\ started' = [started EXCEPT ![r] = clock]
        /\ storage_dir' = TRUE
        /\ IF fs = <<>>
           THEN /\ Abort(r, HTTPException(400, [msg |-> "No files uploaded", about |-> ""]), <<>>)
                /\ UNCHANGED <<pos, saved_ids>>
           ELSE /\ saved_ids' = [saved_ids EXCEPT ![r] = <<>>]
                /\ pos' = [pos EXCEPT ![r] = 1]
                /\ pc' = [pc EXCEPT ![r] = "check_type"]
                /\ UNCHANGED <<xact, response, ended, events>>
    /\ reply' = NoReply
    /\ UNCHANGED <<clock, disk, heap, seq_id, contents, file_path>>

\* upload_documents, entry: the empty-list check and STORAGE_DIR.mkdir.
UploadBegin(r) ==
    /\ pc[r] = "idle"
    /\ \E fs \in FileLists(r) :
        /\ files' = [files EXCEPT ![r] = fs]
        /\ started' = [started EXCEPT ![r] = clock]
        /\ IF fs = <<>>
           THEN /\ Abort(r, HTTPException(400, [msg |-> "No files uploaded", about |-> ""]), <<>>)
                /\ UNCHANGED <<storage_dir, pos, saved_ids>>
           ELSE /\ storage_dir' = TRUE
                /\ saved_ids' = [saved_ids EXCEPT ![r] = <<>>]
                /\ pos' = [pos EXCEPT ![r] = 1]
                /\ pc' = [pc EXCEPT ![r] = "check_type"]
                /\ UNCHANGED <<xact, response, ended, events>>
    /\ reply' = NoReply
    /\ UNCHANGED <<clock, disk, heap, seq_id, contents, file_path>>

\* A file of the wrong type is skipped instead of ending the request.
CheckContentTypeSkips(r) ==
    /\ pc[r] = "check_type"
    /\ LET file == files[r][pos[r]] IN
       IF file.content_type \notin ALLOWED_CONTENT_TYPES
       THEN /\ events' = [events EXCEPT ![r] = Append(@, Event("validate", pos[r], 0))]
            /\ IF pos[r] < Len(files[r])
               THEN /\ pos' = [pos EXCEPT ![r] = @ + 1]
                    /\ UNCHANGED pc
               ELSE /\ pc' = [pc EXCEPT ![r] = "commit"]
                    /\ UNCHANGED pos
       ELSE /\ pc' = [pc EXCEPT ![r] = "read"]
            /\ events' = [events EXCEPT ![r] = Append(@, Event("validate", pos[r], 0))]
            /\ UNCHANGED pos
    /\ UNCHANGED <<clock, storage_dir, disk, heap, seq_id, xact, response, ended,
                   files, contents, file_path, saved_ids, started>>
    /\ reply' = NoReply

\* Loop head and the content-type check of the current file.
CheckContentType(r) ==
    /\ pc[r] = "check_type"
    /\ LET file == files[r][pos[r]] IN
       IF file.content_type \notin ALLOWED_CONTENT_TYPES
       THEN /\ Abort(r, HTTPException(400, [msg |-> "Unsupported file type",
                                            about |-> file.content_type]),
                     <<Event("validate", pos[r], 0), Event("reject", pos[r], 0)>>)
       ELSE /\ pc' = [pc EXCEPT ![r] = "read"]
            /\ events' = [events EXCEPT ![r] = Append(@, Event("validate", pos[r], 0))]
            /\ UNCHANGED <<xact, response, ended>>
    /\ UNCHANGED <<clock, storage_dir, disk, heap, seq_id, files, pos, contents,
                   file_path, saved_ids, started>>
    /\ reply' = NoReply

\* The ceiling taken as exclusive.
TooLargeAtCeiling(bytes) == bytes.len >= MAX_FILE_SIZE_MB * MiB

\* size_mb > MAX_FILE_SIZE_MB, where size_mb = len(contents) / (1024 * 1024):
\* the quotient by a power of two is exact, so the test is on the byte count.
TooLarge(bytes) == bytes.len > MAX_FILE_SIZE_MB * MiB

\* The upload is written to the storage directory as it is read, and its size
\* is checked afterwards.
ReadAndCheckSizeSavesFirst(r) ==
    /\ pc[r] = "read"
    /\ LET file == files[r][pos[r]] IN
       /\ contents' = [contents EXCEPT ![r] = file.content]
       /\ disk' = WriteFile(disk, StoragePath(clock, file.filename), file.content)
       /\ IF TooLarge(file.content)
          THEN Abort(r, HTTPException(400, [msg |-> "too large",
                                           about |-> file.filename]),
                    <<Event("read", pos[r], 0), Event("reject", pos[r], 0)>>)
          ELSE /\ pc' = [pc EXCEPT ![r] = "save"]
               /\ events' = [events EXCEPT ![r] = Append(@, Event("read", pos[r], 0))]
               /\ UNCHANGED <<xact, response, ended>>
    /\ UNCHANGED <<clock, storage_dir, heap, seq_id, files, pos,
                   file_path, saved_ids, started>>
    /\ reply' = NoReply

\* contents = await file.read(), then the size check.
ReadAndCheckSize(r) ==
    /\ pc[r] = "read"
    /\ LET file == files[r][pos[r]] IN
       /\ contents' = [contents EXCEPT ![r] = file.content]
       /\ IF TooLarge(file.content)
          THEN Abort(r, HTTPException(400, [msg |-> "too large",
                                           about |-> file.filename]),
                    <<Event("read", pos[r], 0), Event("reject", pos[r], 0)>>)
          ELSE /\ pc' = [pc EXCEPT ![r] = "save"]
               /\ events' = [events EXCEPT ![r] = Append(@, Event("read", pos[r], 0))]
               /\ UNCHANGED <<xact, response, ended>>
    /\ UNCHANGED <<clock, storage_dir, disk, heap, seq_id, files, pos,
                   file_path, saved_ids, started>>
    /\ reply' = NoReply

\* "Save to disk": the path is built from the clock and the file name, and the
\* bytes are written under it.
SaveToDisk(r) ==
    /\ pc[r] = "save"
    /\ LET path == StoragePath(clock, files[r][pos[r]].filename) IN
       /\ file_path' = [file_path EXCEPT ![r] = path]
       /\ disk' = WriteFile(disk, path, contents[r])
    /\ pc' = [pc EXCEPT ![r] = "record"]
    /\ events' = [events EXCEPT ![r] = Append(@, Event("store", pos[r], 0))]
    /\ UNCHANGED <<clock, storage_dir, dbvars, files, pos, contents, saved_ids,
                   response, started, ended>>
    /\ reply' = NoReply

\* The id is put in front of the list.
CollectFront(ids, id) == <<id>> \o ids

\* saved_ids.append(doc.id)
Collect(ids, id) == Append(ids, id)

\* The id is taken from the number of rows in sight, not from a sequence.
NextIdFromCount == Len(Committed) + 1

\* Document.id, primary key: the next value of the table's sequence, which a
\* rollback does not give back.
NextId == seq_id + 1

\* "Store metadata in DB": db.add(doc); await db.flush();
\* saved_ids.append(doc.id).  The flush sends the INSERT: the id comes from the
\* table's sequence and uploaded_at from the column default datetime.utcnow.
\* The row goes to a free slot of the table.  The loop then moves to the
\* next file, or leaves for the commit.
RecordDocument(r) ==
    /\ pc[r] = "record"
    /\ LET id  == NextId
       IN /\ seq_id' = id
          /\ \E slot \in FreeSlots :
                heap' = Append(heap, Document(id, files[r][pos[r]].filename,
                                              file_path[r], clock, r, slot))
          /\ xact' = [xact EXCEPT ![r] = "active"]
          /\ saved_ids' = [saved_ids EXCEPT ![r] = Collect(@, id)]
          /\ events' = [events EXCEPT ![r] = Append(@, Event("record", pos[r], id))]
    /\ IF pos[r] < Len(files[r])
       THEN /\ pos' = [pos EXCEPT ![r] = @ + 1]
            /\ pc' = [pc EXCEPT ![r] = "check_type"]
       ELSE /\ pc' = [pc EXCEPT ![r] = "commit"]
            /\ UNCHANGED pos
    /\ UNCHANGED <<clock, storage_dir, disk, files, contents, file_path,
                   response, started, ended>>
    /\ reply' = NoReply

\* await db.commit(); return UploadResult(...)
CommitAndReturn(r) ==
    /\ pc[r] = "commit"
    /\ xact' = [xact EXCEPT ![r] = "committed"]
    /\ response' = [response EXCEPT ![r] =
                       [status |-> 200,
                        body |-> UploadResult(saved_ids[r], Len(saved_ids[r]))]]
    /\ ended' = [ended EXCEPT ![r] = clock]
    /\ events' = [events EXCEPT ![r] = Append(@, Event("commit", 0, 0))]
    /\ pc' = [pc EXCEPT ![r] = "done"]
    /\ UNCHANGED <<clock, storage_dir, disk, heap, seq_id, files, pos, contents,
                   file_path, saved_ids, started>>
    /\ reply' = NoReply

\* ------------------------------------------------------- read operations
\* Ids a caller may ask for: every id handed out so far, and one never issued.
AskIds == 1..(seq_id + 1)

\* GET /documents/
ListResult ==
    [status |-> 200,
     body |-> [k \in 1..Len(Committed) |-> DocumentOut(Committed[k])]]

list_documents ==
    /\ reply' = Reply("list", 0, ListResult)
    /\ UNCHANGED <<clock, storage_dir, disk, dbvars, reqvars>>

\* GET /documents/{document_id}
GetResult(id) ==
    LET doc == Lookup(id) IN
    IF doc = None
    THEN [status |-> 404, body |-> [detail |-> "Document not found"]]
    ELSE [status |-> 200, body |-> DocumentOut(doc)]

get_document(id) ==
    /\ reply' = Reply("get", id, GetResult(id))
    /\ UNCHANGED <<clock, storage_dir, disk, dbvars, reqvars>>

\* The is_file() check is left out: a missing file is a server fault.
DownloadUnchecked(id) ==
    LET doc == Lookup(id) IN
    IF doc = None
    THEN [status |-> 404, body |-> [detail |-> "Document not found"]]
    ELSE IF ~IsFile(doc.stored_path)
    THEN [status |-> 500, body |-> [detail |-> "Internal Server Error"]]
    ELSE [status |-> 200,
          body |-> [bytes |-> disk[doc.stored_path],
                    filename |-> doc.original_filename,
                    media_type |-> "application/octet-stream"]]

\* GET /documents/{document_id}/download
DownloadResult(id) ==
    LET doc == Lookup(id) IN
    IF doc = None
    THEN [status |-> 404, body |-> [detail |-> "Document not found"]]
    ELSE IF ~IsFile(doc.stored_path)
    THEN [status |-> 404, body |-> [detail |-> "Stored file not found on disk"]]
    ELSE [status |-> 200,
          body |-> [bytes |-> disk[doc.stored_path],
                    filename |-> doc.original_filename,
                    media_type |-> "application/octet-stream"]]

\* The handler makes sure the storage directory exists before it looks.
download_documentMakesDir(id) ==
    /\ reply' = Reply("download", id, DownloadResult(id))
    /\ storage_dir' = TRUE
    /\ UNCHANGED <<clock, disk, dbvars, reqvars>>

download_document(id) ==
    /\ reply' = Reply("download", id, DownloadResult(id))
    /\ UNCHANGED <<clock, storage_dir, disk, dbvars, reqvars>>

Next ==
    \/ Tick
    \/ \E r \in Requests : UploadBegin(r)
    \/ \E r \in Requests : CheckContentType(r)
    \/ \E r \in Requests : ReadAndCheckSize(r)
    \/ \E r \in Requests : SaveToDisk(r)
    \/ \E r \in Requests : RecordDocument(r)
    \/ \E r \in Requests : CommitAndReturn(r)
    \/ list_documents
    \/ \E id \in AskIds : get_document(id)
    \/ \E id \in AskIds : download_document(id)

Spec == Init /\ [][Next]_vars

\* The storage directory is not the service's alone: a file can vanish from
\* it (an operator's cleanup, a lost volume).  No handler does this.
RemoveFile(path) ==
    /\ path \in DOMAIN disk
    /\ disk' = [p \in DOMAIN disk \ {path} |-> disk[p]]
    /\ reply' = NoReply
    /\ UNCHANGED <<clock, storage_dir, dbvars, reqvars>>

\* The service with storage that can lose files, serving the uploads of one
\* client and every read.
Uploader == CHOOSE r \in Requests : TRUE

NextLoss ==
    \/ Tick
    \/ UploadBegin(Uploader)
    \/ CheckContentType(Uploader)
    \/ ReadAndCheckSize(Uploader)
    \/ SaveToDisk(Uploader)
    \/ RecordDocument(Uploader)
    \/ CommitAndReturn(Uploader)
    \/ list_documents
    \/ \E id \in AskIds : get_document(id)
    \/ \E id \in AskIds : download_document(id)
    \/ \E path \in DOMAIN disk : RemoveFile(path)

SpecLoss == Init /\ [][NextLoss]_vars

\* ------------------------------------------------- vocabulary of the claims

\* Rows inserted by request r, whatever became of its transaction.
RowsOf(r) == SelectSeq(heap, LAMBDA d : d.xid = r)

\* The bytes of file k of request r are in some file of the storage directory.
BlobOnDisk(r, k) == \E p \in DOMAIN disk : disk[p].body = <<r, k>>

\* Request r has ended with a 400 raised for its file k.
RejectedAt(r, k) ==
    /\ pc[r] = "done"
    /\ response[r].status = 400
    /\ Event("reject", k, 0) \in Range(events[r])

\* Request r has ended with 200.
Succeeded(r) == pc[r] = "done" /\ response[r].status = 200

\* The ids a list reply carries.
ListedIds == { reply.body[m].id : m \in DOMAIN reply.body }

\* What the validation is meant to let through.
Acceptable(file) ==
    /\ file.content_type \in ALLOWED_CONTENT_TYPES
    /\ file.content.len <= MAX_FILE_SIZE_MB * 1024 * 1024

C2_DistinctIdsAndPaths ==
    \A m, n \in DOMAIN heap :
        ( /\ heap[m].xid # heap[n].xid
          /\ heap[m].original_filename = heap[n].original_filename ) =>
            /\ heap[m].id # heap[n].id
            /\ heap[m].stored_path # heap[n].stored_path

\* ---------------------------------------------------------------------- C3
\* C3, as stated: download_document of an id that a successful upload
\* returned yields the bytes uploaded for that file, at any later time.
C3_RoundTrip ==
    \A r \in Requests :
        (Succeeded(r) /\ reply.op = "download") =>
            \A k \in DOMAIN files[r] :
                reply.id = response[r].body.uploaded_ids[k] =>
                    /\ reply.status = 200
                    /\ reply.body.bytes = files[r][k].content

\* ---------------------------------------------------------------------- C4
\* C4: validation of a file comes before every persistent write for it: a
\* file that has not passed both checks yet, or that was rejected, has no
\* bytes in the storage directory and no Document row, at any point of the
\* request.
Validated(r, k) ==
    /\ Event("read", k, 0) \in Range(events[r])
    /\ Event("reject", k, 0) \notin Range(events[r])

C4_NoWriteBeforeValidation ==
    \A r \in Requests : \A k \in DOMAIN files[r] :
        ~Validated(r, k) => ~BlobOnDisk(r, k) /\ Len(RowsOf(r)) < k

C4_Witness ==
    \E r \in Requests :
        /\ RejectedAt(r, 2)
        /\ TooLarge(files[r][2].content)
        /\ BlobOnDisk(r, 1)
        /\ ~BlobOnDisk(r, 2)

\* ---------------------------------------------------------------------- C5
\* C5: a file is accepted if and only if its content type is in the allowlist
\* and its size is at most MAX_FILE_SIZE_MB * 1024 * 1024 bytes (inclusive);
\* every rejection is answered with status 400.
Decided(r, k) ==
    \/ k < pos[r]
    \/ k = pos[r] /\ pc[r] \in {"save", "record", "commit", "done"}

C5_AcceptIffTypeAndSize ==
    \A r \in Requests : \A k \in DOMAIN files[r] :
        Decided(r, k) =>
            /\ Validated(r, k) <=> Acceptable(files[r][k])
            /\ ~Acceptable(files[r][k]) => RejectedAt(r, k)

C5_Witness ==
    \E r \in Requests :
        /\ Len(files[r]) = 2
        /\ files[r][1].content.len = MAX_FILE_SIZE_MB * 1024 * 1024
        /\ Validated(r, 1)
        /\ files[r][2].content.len = MAX_FILE_SIZE_MB * 1024 * 1024 + 1
        /\ files[r][2].content_type \in ALLOWED_CONTENT_TYPES
        /\ RejectedAt(r, 2)

\* ---------------------------------------------------------------------- C6
\* C6: after a successful upload of a single file, get_document with the
\* returned id answers 200 with the uploaded file's name and an uploaded_at
\* between the clock readings at the start and at the end of the upload.
C6_ReadAfterWrite ==
    \A r \in Requests :
        ( /\ Succeeded(r)
          /\ Len(files[r]) = 1
          /\ reply.op = "get"
          /\ reply.id = response[r].body.uploaded_ids[1] ) =>
            /\ reply.status = 200
            /\ reply.body.original_filename = files[r][1].filename
            /\ started[r] <= reply.body.uploaded_at
            /\ reply.body.uploaded_at <= ended[r]

C6_Witness ==
    \E r \in Requests :
        /\ Succeeded(r)
        /\ Len(files[r]) = 1
        /\ reply.op = "get"
        /\ reply.id = response[r].body.uploaded_ids[1]
        /\ started[r] > 0

\* ---------------------------------------------------------------------- C7
\* C7: store-then-record: every Document row, flushed or committed, has a
\* stored_path under which a blob has been written, and its request wrote
\* that blob before it inserted the row.
C7_StoreThenRecord ==
    \A m \in DOMAIN heap :
        LET d  == heap[m]
            ev == events[d.xid]
        IN /\ IsFile(d.stored_path)
           /\ \E a, b \in DOMAIN ev :
                /\ a < b
                /\ ev[a].op = "store"
                /\ ev[b] = Event("record", ev[a].k, d.id)

C7_Witness ==
    \E m \in DOMAIN heap :
        /\ xact[heap[m].xid] = "active"
        /\ IsFile(heap[m].stored_path)

\* ---------------------------------------------------------------------- C8
\* C8: download_document ends in one of three ways and never in a server
\* fault: 404 "Document not found" when no committed row has the id; 404
\* "Stored file not found on disk" when the row is there and its blob is not;
\* otherwise 200 with the stored bytes and the row's original_filename.
C8_DownloadOutcomes ==
    reply.op = "download" =>
        LET rows == { d \in Range(heap) :
                        d.id = reply.id /\ xact[d.xid] = "committed" }
        IN /\ reply.status \in {200, 404}
           /\ rows = {} =>
                /\ reply.status = 404
                /\ reply.body.detail = "Document not found"
           /\ \A d \in rows :
                IF d.stored_path \in DOMAIN disk
                THEN /\ reply.status = 200
                     /\ reply.body.bytes = disk[d.stored_path]
                     /\ reply.body.filename = d.original_filename
                ELSE /\ reply.status = 404
                     /\ reply.body.detail = "Stored file not found on disk"

C8_Witness ==
    /\ reply.op = "download"
    /\ reply.status = 404
    /\ reply.body.detail = "Stored file not found on disk"

\* ---------------------------------------------------------------------- C9
\* C9: the files of a batch are handled strictly in submitted order, file
\* k+1 being validated only once file k is stored and recorded; after a file
\* fails validation no later file is read, validated, stored or recorded and
\* the request issues no commit.
C9_InOrderAbortOnFirstFailure ==
    \A r \in Requests :
        LET ev == events[r] IN
        /\ \A m \in DOMAIN ev :
            /\ ev[m].op = "validate" =>
                 IF m = 1 THEN ev[m].k = 1
                 ELSE /\ ev[m - 1].op = "record"
                      /\ ev[m - 1].k + 1 = ev[m].k
            /\ ev[m].op = "read" => ev[m - 1] = Event("validate", ev[m].k, 0)
            /\ ev[m].op = "store" => ev[m - 1] = Event("read", ev[m].k, 0)
            /\ ev[m].op = "record" => ev[m - 1] = Event("store", ev[m].k, 0)
            /\ ev[m].op = "reject" => m = Len(ev)
        /\ \A k \in DOMAIN files[r] :
            RejectedAt(r, k) =>
                /\ \A m \in DOMAIN ev : ev[m].op # "commit" /\ ev[m].k <= k
                /\ xact[r] # "committed"
                /\ Len(RowsOf(r)) = k - 1
                /\ \A j \in DOMAIN files[r] : j >= k => ~BlobOnDisk(r, j)

C9_Witness ==
    \E r \in Requests :
        /\ Len(files[r]) = 2
        /\ RejectedAt(r, 1)
        /\ Acceptable(files[r][2])

\* --------------------------------------------------------------------- C10
\* C10: a batch of n >= 1 files that all pass validation ends with exactly
\* one commit, issued after the last file was recorded, and with
\* uploaded_ids of length n and count = n, the i-th id being the id of the
\* Document row of the i-th submitted file.
C10_OneCommitOrderedIds ==
    \A r \in Requests :
        LET n  == Len(files[r])
            ev == events[r]
        IN /\ ( /\ pc[r] = "done"
                /\ n >= 1
                /\ \A k \in 1..n : Acceptable(files[r][k]) ) => Succeeded(r)
           /\ Succeeded(r) =>
                /\ n >= 1
                /\ response[r].body.count = n
                /\ Len(response[r].body.uploaded_ids) = n
                /\ Cardinality({ m \in DOMAIN ev : ev[m].op = "commit" }) = 1
                /\ ev[Len(ev)].op = "commit"
                /\ ev[Len(ev) - 1].op = "record" /\ ev[Len(ev) - 1].k = n
                /\ xact[r] = "committed"
                /\ \A i \in 1..n :
                     LET id == response[r].body.uploaded_ids[i] IN
                     /\ Event("record", i, id) \in Range(ev)
                     /\ RowsOf(r)[i].id = id
                     /\ RowsOf(r)[i].original_filename = files[r][i].filename

C10_Witness ==
    \E r \in Requests :
        /\ Succeeded(r)
        /\ Len(files[r]) = 2
        /\ files[r][1].filename # files[r][2].filename

\* --------------------------------------------------------------------- C11
\* C11: an upload request with an empty file list is answered 400 in the
\* step that receives it, and that step touches no storage: the storage
\* directory is not created, no blob is written, no Document row is added
\* and nothing is committed.
C11_EmptyListRejectedUpfront ==
    [][ \A r \in Requests :
          (pc[r] = "idle" /\ pc'[r] # "idle" /\ files'[r] = <<>>) =>
              /\ pc'[r] = "done"
              /\ response'[r].status = 400
              /\ response'[r].detail.msg = "No files uploaded"
              /\ events'[r] = <<>>
              /\ xact'[r] = "none"
              /\ UNCHANGED <<storage_dir, disk, heap, seq_id, xact>> ]_vars

C11_Witness ==
    \E r \in Requests :
        /\ pc[r] = "done"
        /\ files[r] = <<>>
        /\ response[r].status = 400
        /\ storage_dir = FALSE
        /\ disk = <<>>

\* --------------------------------------------------------------------- C12
\* C12, as stated: list_documents answers 200 with exactly the committed
\* Document rows, each once, in ascending order of creation (the ids grow
\* along the sequence); with no committed row the sequence is empty.
C12_ListInInsertionOrder ==
    reply.op = "list" =>
        LET rows == { d \in Range(heap) : xact[d.xid] = "committed" } IN
        /\ reply.status = 200
        /\ Len(reply.body) = Cardinality(rows)
        /\ Range(reply.body) = { DocumentOut(d) : d \in rows }
        /\ \A m, n \in DOMAIN reply.body :
              m < n => reply.body[m].id < reply.body[n].id

\* --------------------------------------------------------------------- C13
\* C13: Document rows are append-only: no step changes or removes a committed
\* row, un-commits it or gives its place in the table to a live row, and no
\* two rows ever inserted share an id.
C13_AppendOnly ==
    [][ /\ \A m \in DOMAIN heap :
            /\ m \in DOMAIN heap'
            /\ IsCommitted(heap[m]) =>
                 /\ heap'[m] = heap[m]
                 /\ xact'[heap[m].xid] = "committed"
                 /\ \A n \in DOMAIN heap' :
                       (n # m /\ heap'[n].slot = heap[m].slot) =>
                           xact'[heap'[n].xid] = "aborted"
        /\ \A m, n \in DOMAIN heap' :
            m # n => heap'[m].id # heap'[n].id ]_vars

C13_Witness ==
    \E m, n \in DOMAIN heap :
        /\ m < n
        /\ xact[heap[m].xid] = "committed"
        /\ xact[heap[n].xid] = "aborted"
        /\ heap[m].original_filename = heap[n].original_filename

\* --------------------------------------------------------------------- C14
\* C14: the rows of one upload request become visible to the readers all
\* together, at its commit: a list result holds either every row the
\* request has inserted or none of them, and a list, get or download
\* never answers with a row of a request that has not committed.
C14_BatchVisibilityAtomic ==
    /\ reply.op = "list" =>
         \A r \in Requests :
            LET ids == { d.id : d \in Range(RowsOf(r)) } IN
            /\ (ids \cap ListedIds = {}) \/ (ids \subseteq ListedIds)
            /\ ids \cap ListedIds # {} =>
                 /\ xact[r] = "committed"
                 /\ Len(RowsOf(r)) = Len(files[r])
    /\ (reply.op \in {"get", "download"} /\ reply.status = 200) =>
         \E d \in Range(heap) : d.id = reply.id /\ xact[d.xid] = "committed"

C14_Witness ==
    /\ reply.op = "list"
    /\ reply.body # <<>>
    /\ \E r \in Requests : xact[r] = "active" /\ Len(RowsOf(r)) = 1
                           /\ Len(files[r]) = 2

\* --------------------------------------------------------------------- C15
\* C15, as stated: whenever no upload request is in progress, every file in
\* the storage directory is the stored_path of a committed Document row.
C15_NoOrphanBlobs ==
    (\A r \in Requests : pc[r] \in {"idle", "done"}) =>
        \A p \in DOMAIN disk :
            \E d \in Range(heap) : xact[d.xid] = "committed" /\ d.stored_path = p

\* --------------------------------------------------------------------- C16
\* C16: a step that serves list_documents, get_document or download_document
\* leaves the table, the transactions, the id sequence, the storage
\* directory and its files as they were, whether it answers 200 or 404.
C16_ReadsChangeNothing ==
    [][ reply'.op \in {"list", "get", "download"} =>
            UNCHANGED <<heap, xact, seq_id, storage_dir, disk>> ]_vars

C16_Witness ==
    /\ reply.op = "download"
    /\ reply.status = 404
    /\ reply.body.detail = "Document not found"
    /\ \E d \in Range(heap) : d.id = reply.id

====
